---- MODULE Spec2Model ----
(***************************************************************************)
(* Model of replace_imgui.py: a script that reads a source document,       *)
(* locates the RenderImGui function by a marker line and a textual         *)
(* end-of-block heuristic, splices a replacement text over it and writes   *)
(* the document back.                                                      *)
(*                                                                         *)
(* Text is a sequence of tokens.  A token is one character or one fixed    *)
(* substring the script looks for:                                         *)
(*   "M"   the marker 'void DX12Renderer::RenderImGui' (it begins with     *)
(*         'void ')                                                        *)
(*   "V"   'void ' that does not continue into the marker                  *)
(*   "B"   '//==='                                                         *)
(*   "}"   the closing delimiter                                           *)
(*   " "   a blank character, "\n" the line break                          *)
(*   "x"   any other non-blank text                                        *)
(*   "F"   the character U+FEFF                                            *)
(* File contents are sequences of the same tokens, except that U+FEFF is   *)
(* stored as the byte group "BOM" (EF BB BF).                              *)
(***************************************************************************)
EXTENDS Integers, Sequences, FiniteSets, TLC

\* -------------------------------------------------------------------------
\* Program constants and model bounds

\* `i > start_line + 10`
MinGap == 10

\* Python's None for start_line / end_line (indices are 0-based naturals)
None == -1

\* longest head (lines up to the last marker candidate) of a generated document
MaxHead == 2
\* longest tail (lines after the filler body) of a generated document
MaxTail == 5
\* number of consecutive runs of the script on the same target file
MaxRuns == 2

\* -------------------------------------------------------------------------
\* Text helpers

RECURSIVE Concat(_)
\* ''.join(lines)
Concat(ls) == IF ls = <<>> THEN <<>> ELSE Head(ls) \o Concat(Tail(ls))

RECURSIVE Repeat(_, _)
Repeat(l, n) == IF n = 0 THEN <<>> ELSE <<l>> \o Repeat(l, n - 1)

RECURSIVE SplitFrom(_, _)
\* readlines(): cut after every line break, keeping it; a last line without
\* a line break is kept, an empty remainder is not a line
SplitFrom(text, cur) ==
    IF text = <<>>
    THEN IF cur = <<>> THEN <<>> ELSE <<cur>>
    ELSE IF Head(text) = "\n"
         THEN <<Append(cur, "\n")>> \o SplitFrom(Tail(text), <<>>)
         ELSE SplitFrom(Tail(text), Append(cur, Head(text)))

SplitLines(text) == SplitFrom(text, <<>>)

IsSpace(c) == c \in {" ", "\n"}

RECURSIVE LStrip(_)
LStrip(s) == IF s # <<>> /\ IsSpace(Head(s)) THEN LStrip(Tail(s)) ELSE s

RECURSIVE RStrip(_)
RStrip(s) ==
    IF s # <<>> /\ IsSpace(s[Len(s)]) THEN RStrip(SubSeq(s, 1, Len(s) - 1)) ELSE s

\* str.strip()
Strip(s) == RStrip(LStrip(s))

\* 'void DX12Renderer::RenderImGui' in line
HasMarker(line) == \E k \in 1..Len(line) : line[k] = "M"

\* s.startswith('//===')
StartsWithBanner(s) == s # <<>> /\ s[1] = "B"

\* s.startswith('void '): the marker text itself begins with 'void '
StartsWithVoid(s) == s # <<>> /\ s[1] \in {"V", "M"}

\* -------------------------------------------------------------------------
\* Encodings

\* str -> bytes, utf-8
Utf8Encode(text) == [k \in 1..Len(text) |-> IF text[k] = "F" THEN "BOM" ELSE text[k]]

\* bytes -> str, utf-8
Utf8Decode(bytes) == [k \in 1..Len(bytes) |-> IF bytes[k] = "BOM" THEN "F" ELSE bytes[k]]

\* utf-8-sig writer: one BOM, then the utf-8 bytes
Utf8SigEncode(text) == <<"BOM">> \o Utf8Encode(text)

RECURSIVE Utf8SigDecodeAll(_)
\* a reader that drops every leading BOM
Utf8SigDecodeAll(bytes) ==
    IF bytes # <<>> /\ Head(bytes) = "BOM"
    THEN Utf8SigDecodeAll(Tail(bytes))
    ELSE Utf8Decode(bytes)

\* utf-8-sig reader: one leading BOM, when present, is dropped
Utf8SigDecode(bytes) ==
    IF bytes # <<>> /\ Head(bytes) = "BOM"
    THEN Utf8Decode(Tail(bytes))
    ELSE Utf8Decode(bytes)

\* -------------------------------------------------------------------------
\* Input documents

MarkerLine == <<"M", "\n">>
BraceLine == <<"}", "\n">>
BlankLine == <<"\n">>
DeclLine == <<"V", "x", "\n">>
BannerLine == <<" ", "B", "\n">>
OtherLine == <<" ", "x", "\n">>

HeadKinds == {MarkerLine, OtherLine}
TailKinds == {MarkerLine, BraceLine, BlankLine, DeclLine, BannerLine, OtherLine}

SeqsUpTo(S, n) == UNION {[1..k -> S] : k \in 0..n}

\* a function body of filler statements
Body(n) == Repeat(OtherLine, n)

\* documents with the marker on the first line and any tail after the body
TailDocuments ==
    {<<MarkerLine>> \o Body(MinGap) \o t : t \in SeqsUpTo(TailKinds, MaxTail)}

\* documents with any head, a body one line short of the gap or not, and a
\* closing line that is or is not followed by another line
HeadDocuments ==
    {h \o Body(g) \o t : h \in SeqsUpTo(HeadKinds, MaxHead),
                         g \in {MinGap - 1, MinGap},
                         t \in {<<BraceLine>>, <<BraceLine, BlankLine>>}}

\* stored target files: written with a BOM, or (head documents) without one
TargetFiles ==
    {Utf8SigEncode(Concat(d)) : d \in TailDocuments \cup HeadDocuments}
    \cup {Utf8Encode(Concat(d)) : d \in HeadDocuments}

\* replacement texts: a plain fragment; a whole function that begins with the
\* marker and ends with the closing delimiter; a text that begins with U+FEFF
ReplPlain == <<"x">>
ReplFunction == Concat(<<MarkerLine>> \o Body(MinGap)) \o <<"}">>
ReplBom == <<"F", "M", "\n", "x">>
ReplacementFiles == {Utf8Encode(r) : r \in {ReplPlain, ReplFunction, ReplBom}}

\* -------------------------------------------------------------------------
\* State

VARIABLES
    file,        \* bytes of the target file (DX12Renderer.cpp)
    replFile,    \* bytes of the replacement file (new_imgui.txt)
    pc,          \* position of the script
    lines,       \* lines
    new_imgui,   \* new_imgui
    start_line,  \* start_line
    end_line,    \* end_line
    i,           \* loop variable of the scan
    new_lines,   \* new_lines
    err,         \* uncaught exception that ended the run, or "none"
    events,      \* what the run has done so far, in order
    writes,      \* number of times this run has written the target file
    run,         \* number of the current run on this target file
    file0        \* bytes of the target file when the current run started

vars == <<file, replFile, pc, lines, new_imgui, start_line, end_line, i,
          new_lines, err, events, writes, run, file0>>

Event(e, a, b) == [ev |-> e, from |-> a, to |-> b]

Init ==
    /\ file \in TargetFiles
    /\ replFile \in ReplacementFiles
    /\ pc = "load_source"
    /\ lines = <<>>
    /\ new_imgui = <<>>
    /\ start_line = None
    /\ end_line = None
    /\ i = 0
    /\ new_lines = <<>>
    /\ err = "none"
    /\ events = <<>>
    /\ writes = 0
    /\ run = 1
    /\ file0 = file

\* -------------------------------------------------------------------------
\* Steps of the script

\* lines = f.readlines() on the utf-8-sig reader
LoadSource ==
    /\ pc = "load_source"
    /\ lines' = SplitLines(Utf8SigDecode(file))
    /\ events' = Append(events, Event("load_source", 0, 0))
    /\ pc' = "load_replacement"
    /\ UNCHANGED <<file, replFile, new_imgui, start_line, end_line, i,
                   new_lines, err, writes, run, file0>>

\* new_imgui = f.read() on the utf-8 reader; start_line = end_line = None
LoadReplacement ==
    /\ pc = "load_replacement"
    /\ new_imgui' = Utf8Decode(replFile)
    /\ start_line' = None
    /\ end_line' = None
    /\ i' = 0
    /\ events' = Append(events, Event("load_replacement", 0, 0))
    /\ pc' = "scan"
    /\ UNCHANGED <<file, replFile, lines, new_lines, err, writes, run, file0>>

\* a look-ahead that does not accept a banner line
LookAheadNoBanner(ls, k) ==
    /\ k + 1 < Len(ls)
    /\ \/ StartsWithVoid(Strip(ls[k + 2]))
       \/ Strip(ls[k + 2]) = <<>>

\* a look-ahead that accepts the end of the document as well
LookAheadEofOk(ls, k) ==
    \/ k + 1 >= Len(ls)
    \/ StartsWithBanner(Strip(ls[k + 2]))
    \/ StartsWithVoid(Strip(ls[k + 2]))
    \/ Strip(ls[k + 2]) = <<>>

\* the look-ahead: a next line exists and, trimmed, is a banner, a
\* declaration or empty
LookAhead(ls, k) ==
    /\ k + 1 < Len(ls)
    /\ \/ StartsWithBanner(Strip(ls[k + 2]))
       \/ StartsWithVoid(Strip(ls[k + 2]))
       \/ Strip(ls[k + 2]) = <<>>

\* start_line after the first statement of the loop body at index k
NextStart(ls, k, s) == IF HasMarker(ls[k + 1]) THEN k ELSE s

\* whether the loop body at index k, with start s and end e, sets end_line
SetsEnd(ls, k, s, e) ==
    /\ s # None
    /\ e = None
    /\ Strip(ls[k + 1]) = <<"}">>
    /\ k > s + MinGap
    /\ LookAhead(ls, k)

\* an iteration that sets end_line and goes on scanning
ScanStepNoBreak ==
    /\ pc = "scan"
    /\ i < Len(lines)
    /\ start_line' = NextStart(lines, i, start_line)
    /\ end_line' = IF SetsEnd(lines, i, start_line', end_line) THEN i ELSE end_line
    /\ i' = i + 1
    /\ UNCHANGED <<file, replFile, pc, lines, new_imgui, new_lines, err, events,
                   writes, run, file0>>

\* one iteration of `for i, line in enumerate(lines)`
ScanStep ==
    /\ pc = "scan"
    /\ i < Len(lines)
    /\ start_line' = NextStart(lines, i, start_line)
    /\ IF SetsEnd(lines, i, start_line', end_line)
       THEN /\ end_line' = i
            /\ i' = i
            /\ events' = Append(events, Event("scan", 0, 0))
            /\ pc' = "report"
       ELSE /\ end_line' = end_line
            /\ i' = i + 1
            /\ events' = events
            /\ pc' = pc
    /\ UNCHANGED <<file, replFile, lines, new_imgui, new_lines, err, writes,
                   run, file0>>

\* the loop runs out of lines
ScanExhausted ==
    /\ pc = "scan"
    /\ i = Len(lines)
    /\ events' = Append(events, Event("scan", 0, 0))
    /\ pc' = "report"
    /\ UNCHANGED <<file, replFile, lines, new_imgui, start_line, end_line, i,
                   new_lines, err, writes, run, file0>>

\* a report that prints the 0-based indices
ReportZeroBased ==
    /\ pc = "report"
    /\ IF start_line = None \/ end_line = None
       THEN /\ err' = "TypeError"
            /\ events' = events
            /\ pc' = "failed"
       ELSE /\ err' = err
            /\ events' = Append(events, Event("report", start_line, end_line))
            /\ pc' = "splice"
    /\ UNCHANGED <<file, replFile, lines, new_imgui, start_line, end_line, i,
                   new_lines, writes, run, file0>>

\* print(f'Found ... {start_line + 1} to {end_line + 1}'): None + 1 raises
\* TypeError while the text is built, nothing is printed and the script ends
Report ==
    /\ pc = "report"
    /\ IF start_line = None \/ end_line = None
       THEN /\ err' = "TypeError"
            /\ events' = events
            /\ pc' = "failed"
       ELSE /\ err' = err
            /\ events' = Append(events, Event("report", start_line + 1, end_line + 1))
            /\ pc' = "splice"
    /\ UNCHANGED <<file, replFile, lines, new_imgui, start_line, end_line, i,
                   new_lines, writes, run, file0>>

\* a splice that keeps the line at start_line
SpliceLinesKeepStart(ls, s, e, repl) ==
    SubSeq(ls, 1, s + 1) \o <<repl \o <<"\n">>>> \o SubSeq(ls, e + 2, Len(ls))

\* a splice that keeps the line at end_line
SpliceLinesKeepEnd(ls, s, e, repl) ==
    SubSeq(ls, 1, s) \o <<repl \o <<"\n">>>> \o SubSeq(ls, e + 1, Len(ls))

\* lines[:start_line] + [new_imgui + '\n'] + lines[end_line + 1:]
SpliceLines(ls, s, e, repl) ==
    SubSeq(ls, 1, s) \o <<repl \o <<"\n">>>> \o SubSeq(ls, e + 2, Len(ls))

Splice ==
    /\ pc = "splice"
    /\ new_lines' = SpliceLines(lines, start_line, end_line, new_imgui)
    /\ pc' = "write"
    /\ UNCHANGED <<file, replFile, lines, new_imgui, start_line, end_line, i,
                   err, events, writes, run, file0>>

\* f.writelines(new_lines) on the utf-8-sig writer
Persist(ls) == Utf8SigEncode(Concat(ls))

Write ==
    /\ pc = "write"
    /\ file' = Persist(new_lines)
    /\ writes' = writes + 1
    /\ events' = Append(events, Event("write", 0, 0))
    /\ pc' = "success"
    /\ UNCHANGED <<replFile, lines, new_imgui, start_line, end_line, i,
                   new_lines, err, run, file0>>

\* print('Successfully replaced RenderImGui function!')
Success ==
    /\ pc = "success"
    /\ events' = Append(events, Event("success", 0, 0))
    /\ pc' = "done"
    /\ UNCHANGED <<file, replFile, lines, new_imgui, start_line, end_line, i,
                   new_lines, err, writes, run, file0>>

\* the script is started again on the file the previous run wrote
Rerun ==
    /\ pc = "done"
    /\ run < MaxRuns
    /\ run' = run + 1
    /\ file0' = file
    /\ pc' = "load_source"
    /\ lines' = <<>>
    /\ new_imgui' = <<>>
    /\ start_line' = None
    /\ end_line' = None
    /\ i' = 0
    /\ new_lines' = <<>>
    /\ err' = "none"
    /\ events' = <<>>
    /\ writes' = 0
    /\ UNCHANGED <<file, replFile>>

Next ==
    \/ LoadSource
    \/ LoadReplacement
    \/ ScanStep
    \/ ScanExhausted
    \/ Report
    \/ Splice
    \/ Write
    \/ Success
    \/ Rerun

Spec == Init /\ [][Next]_vars

\* -------------------------------------------------------------------------
\* Properties

\* the run has passed the report with both boundaries set
Located == pc \in {"splice", "write", "success", "done"}

\* the run has written the target file
Written == pc \in {"success", "done"}

\* the scan of this run is over
Scanned == pc \in {"report", "failed", "splice", "write", "success", "done"}

\* 0-based indices of the lines of ls
Indices(ls) == 0..(Len(ls) - 1)

\* C1: after a successful run the written line sequence is the source lines
\* before start_line, then the single element replacement + line break, then
\* the source lines after end_line, and the file holds exactly these lines.
C1_SpliceFrame ==
    Written =>
        /\ lines = SplitLines(Utf8SigDecode(file0))
        /\ Len(new_lines) = start_line + 1 + (Len(lines) - 1 - end_line)
        /\ \A k \in 0..(start_line - 1) : new_lines[k + 1] = lines[k + 1]
        /\ new_lines[start_line + 1] = Utf8Decode(replFile) \o <<"\n">>
        /\ \A k \in (end_line + 1)..(Len(lines) - 1) :
               new_lines[start_line + 1 + (k - end_line)] = lines[k + 1]
        /\ file = <<"BOM">> \o Utf8Encode(Concat(new_lines))

C1_Witness ==
    /\ pc = "done"
    /\ run = 1
    /\ start_line > 0
    /\ end_line + 1 < Len(lines)
    /\ Len(new_lines) = start_line + 1 + (Len(lines) - 1 - end_line)

\* C2: a run on a document without a marker line fails with NotFoundError
\* and leaves the target file unmodified.
C2_NoMarkerNotFoundError ==
    (pc = "failed" /\ \A k \in Indices(lines) : ~HasMarker(lines[k + 1])) =>
        /\ err = "NotFoundError"
        /\ writes = 0
        /\ file = file0

\* C3: a run on a document with a marker line but no qualifying end line
\* fails with BoundaryError and leaves the target file unmodified.
C3_NoEndBoundaryError ==
    (/\ pc = "failed"
     /\ \E k \in Indices(lines) : HasMarker(lines[k + 1])
     /\ end_line = None) =>
        /\ err = "BoundaryError"
        /\ writes = 0
        /\ file = file0

\* text of the region [start_line, end_line] of the current run
RegionText == Concat(SubSeq(lines, start_line + 1, end_line + 1))

Order == <<"load_source", "load_replacement", "scan", "report", "write", "success">>

\* C5: the events of a run are a prefix of load source, load replacement,
\* scan, report, write, success; the report carries start_line + 1 and
\* end_line + 1; the target is written at most once, only after the report,
\* and the success line is printed only after the write.
C5_EventOrder ==
    /\ Len(events) <= Len(Order)
    /\ \A k \in 1..Len(events) : events[k].ev = Order[k]
    /\ \A k \in 1..Len(events) :
           events[k].ev = "report" =>
               events[k].from = start_line + 1 /\ events[k].to = end_line + 1
    /\ writes = Cardinality({k \in 1..Len(events) : events[k].ev = "write"})
    /\ writes <= 1
    /\ file # file0 => writes = 1

C5_Witness ==
    /\ pc = "done"
    /\ Len(events) = Len(Order)
    /\ events[4] = Event("report", start_line + 1, end_line + 1)
    /\ start_line # end_line
    /\ writes = 1

\* C6: reading the written file back with the utf-8-sig reader gives the
\* text that was written, also when the replacement is the first element
\* written and begins with U+FEFF.
C6_BomRoundTrip ==
    Written => Utf8SigDecode(file) = Concat(new_lines)

C6_Witness ==
    /\ Written
    /\ start_line = 0
    /\ Head(new_imgui) = "F"
    /\ Head(Concat(new_lines)) = "F"
    /\ SubSeq(file, 1, 2) = <<"BOM", "BOM">>

\* C7: the start index used by the report and the splice is the index of the
\* first line that contains the marker.
C7_StartIsFirstMarker ==
    Located =>
        /\ HasMarker(lines[start_line + 1])
        /\ \A k \in 0..(start_line - 1) : ~HasMarker(lines[k + 1])

\* the three conditions of the end-of-block heuristic at index j
EndCondition(j) ==
    /\ Strip(lines[j + 1]) = <<"}">>
    /\ j > start_line + MinGap
    /\ j + 1 < Len(lines)
    /\ LET next == Strip(lines[j + 2])
       IN \/ next = <<>>
          \/ next # <<>> /\ next[1] = "B"
          \/ next # <<>> /\ next[1] \in {"V", "M"}

\* C8: once the scan is over, end_line is the smallest index after
\* start_line that meets the three conditions; when it is unset and
\* start_line is set, no index after start_line meets them.
C8_EndIsFirstMatch ==
    (Scanned /\ start_line # None) =>
        IF end_line # None
        THEN /\ end_line > start_line
             /\ EndCondition(end_line)
             /\ \A j \in (start_line + 1)..(end_line - 1) : ~EndCondition(j)
        ELSE \A j \in (start_line + 1)..(Len(lines) - 1) : ~EndCondition(j)

C8_Witness ==
    /\ Scanned
    /\ start_line # None
    /\ end_line # None
    /\ \E j \in (start_line + 1)..(end_line - 1) : Strip(lines[j + 1]) = <<"}">>
    /\ \E j \in (end_line + 1)..(Len(lines) - 1) : EndCondition(j)

\* C9: whenever both indices are set start_line <= end_line, and within a
\* run start_line does not change once end_line is set.
C9_StartBeforeEnd ==
    [][/\ (start_line' # None /\ end_line' # None) => start_line' <= end_line'
       /\ (end_line # None /\ run' = run) => start_line' = start_line]_vars

C9_Witness ==
    /\ pc = "done"
    /\ start_line # None
    /\ end_line # None
    /\ start_line < end_line
    /\ \E k \in (end_line + 1)..(Len(lines) - 1) : HasMarker(lines[k + 1])

\* the lone closing lines more than MinGap lines after the first marker line
FarBraces(ls) ==
    {j \in Indices(ls) :
        /\ Strip(ls[j + 1]) = <<"}">>
        /\ \E m \in Indices(ls) : HasMarker(ls[m + 1]) /\ j > m + MinGap}

\* C10: end_line is never the last line, so a source line follows the
\* replacement in the output; and a document whose only lone closing line
\* more than MinGap lines after the marker is its last line is never
\* written and fails.
C10_LastLineNeverEnd ==
    /\ (Scanned /\ end_line # None) => end_line < Len(lines) - 1
    /\ Written => Len(new_lines) >= start_line + 2
    /\ (Scanned /\ FarBraces(lines) = {Len(lines) - 1}) =>
           /\ end_line = None
           /\ pc \in {"report", "failed"}
           /\ pc = "failed" => err # "none"
           /\ writes = 0
           /\ file = file0

C10_Witness ==
    /\ pc = "failed"
    /\ start_line # None
    /\ FarBraces(lines) = {Len(lines) - 1}
    /\ file = file0

====
